---- MODULE Spec2Model ----
(***************************************************************************)
(* ScenarioResultsComponent (scenario-results.component.ts): the results   *)
(* page of a scenario.  One component instance, the selection subject of   *)
(* ScenarioResultsService, the HTTP fetches in flight and the calls made   *)
(* to Bokeh.embed.embed_item.                                              *)
(***************************************************************************)
EXTENDS Integers, Sequences, FiniteSets, TLC

\* ---------------------------------------------------------------- bounds
\* Runs of ngOnInit (page entry and showResults) in Spec, in SpecFocus, in
\* SpecParams and in SpecErrors.
MaxActivations == 3
FocusActivations == 4
ParamActivations == 2
ErrorActivations == 3
\* User edits of plot option form controls in Spec and in SpecParams.
MaxEdits == 1
ParamEdits == 2

\* ---------------------------------------------------------------- values
\* JavaScript values held by form controls and passed to the service.
Null == [t |-> "null", v |-> "null"]
Str(s) == [t |-> "string", v |-> s]
Num(n) == [t |-> "number", v |-> n]

\* A field that was declared but never assigned: one that holds an object,
\* and one that holds a string.
Undefined == [t |-> "undefined", v |-> "undefined"]
UndefinedString == "undefined"

\* The route parameter params.id of the page.
RouteId == "42"

\* Unary plus on the route parameter.
ToNumber(s) == IF s = "42" THEN 42 ELSE 0

\* String conversion inside a template literal.
ToStr(x) == IF x.t = "null" THEN "null" ELSE x.v

\* ---------------------------------------------------------------- catalog
\* The twelve table views, in the order ngOnInit tests their keys.
TableViews ==
  << [key |-> "results-project-capacity", fetch |-> "getResultsProjectCapacity",
      slot |-> "resultsProjectCapacity"],
     [key |-> "results-project-retirements", fetch |-> "getResultsProjectRetirements",
      slot |-> "resultsProjectRetirements"],
     [key |-> "results-project-new-build", fetch |-> "getResultsProjectNewBuild",
      slot |-> "resultsProjectNewBuild"],
     [key |-> "results-project-dispatch", fetch |-> "getResultsProjectDispatch",
      slot |-> "resultsProjectDispatch"],
     [key |-> "results-project-carbon", fetch |-> "getResultsProjectCarbon",
      slot |-> "resultsProjectCarbon"],
     [key |-> "results-transmission-capacity", fetch |-> "getResultsTransmissionCapacity",
      slot |-> "resultsTransmissionCapacity"],
     [key |-> "results-transmission-flows", fetch |-> "getResultsTransmissionFlows",
      slot |-> "resultsTransmissionFlows"],
     [key |-> "results-imports-exports", fetch |-> "getResultsImportsExports",
      slot |-> "resultsImportsExports"],
     [key |-> "results-system-load-balance", fetch |-> "getResultsSystemLoadBalance",
      slot |-> "resultsSystemLoadBalance"],
     [key |-> "results-system-rps", fetch |-> "getResultsSystemRPS",
      slot |-> "resultsSystemRPS"],
     [key |-> "results-system-carbon-cap", fetch |-> "getResultsSystemCarbonCap",
      slot |-> "resultsSystemCarbonCap"],
     [key |-> "results-system-prm", fetch |-> "getResultsSystemPRM",
      slot |-> "resultsSystemPRM"] >>

\* The seven plot views, in the order ngOnInit tests their keys: the form
\* group, the prefix of its control names, the prefix of the HTML name and
\* the select controls read besides the y-axis maximum.
PlotViews ==
  << [key |-> "results-dispatch-plot", fetch |-> "getResultsDispatchPlot",
      form |-> "dispatchPlotOptionsForm", ctl |-> "dispatchPlot",
      html |-> "dispatchPlot", filters |-> <<"LoadZone", "Horizon">>],
     [key |-> "results-capacity-new-plot", fetch |-> "getResultsCapacityNewPlot",
      form |-> "capacityNewPlotOptionsForm", ctl |-> "capacityNewPlot",
      html |-> "newCapacityPlot", filters |-> <<"LoadZone">>],
     [key |-> "results-capacity-retired-plot", fetch |-> "getResultsCapacityRetiredPlot",
      form |-> "capacityRetiredPlotOptionsForm", ctl |-> "capacityRetiredPlot",
      html |-> "retiredCapacityPlot", filters |-> <<"LoadZone">>],
     [key |-> "results-capacity-total-plot", fetch |-> "getResultsCapacityTotalPlot",
      form |-> "capacityTotalPlotOptionsForm", ctl |-> "capacityTotalPlot",
      html |-> "allCapacityPlot", filters |-> <<"LoadZone">>],
     [key |-> "results-energy-plot", fetch |-> "getResultsEnergyPlot",
      form |-> "energyPlotOptionsForm", ctl |-> "energyPlot",
      html |-> "EnergyPlot", filters |-> <<"LoadZone", "Stage">>],
     [key |-> "results-cost-plot", fetch |-> "getResultsCostPlot",
      form |-> "costPlotOptionsForm", ctl |-> "costPlot",
      html |-> "CostPlot", filters |-> <<"LoadZone", "Stage">>],
     [key |-> "results-capacity-factor-plot", fetch |-> "getResultsCapacityFactorPlot",
      form |-> "capacityFactorPlotOptionsForm", ctl |-> "capacityFactorPlot",
      html |-> "CapFactorPlot", filters |-> <<"LoadZone", "Stage">>] >>

Range(s) == {s[i] : i \in 1..Len(s)}

TableKeys == {v.key : v \in Range(TableViews)}
PlotKeys == {v.key : v \in Range(PlotViews)}
CatalogKeys == TableKeys \cup PlotKeys
TableSlots == {v.slot : v \in Range(TableViews)}
PlotForms == {v.form : v \in Range(PlotViews)}

PlotOf(form) == CHOOSE v \in Range(PlotViews) : v.form = form
PlotByKey(key) == CHOOSE v \in Range(PlotViews) : v.key = key
TableByKey(key) == CHOOSE v \in Range(TableViews) : v.key = key

\* The controls of a plot view's FormGroup.
Controls(v) == Range(v.filters) \cup {"YMax"}

\* ---------------------------------------------------------------- inputs
\* A key no view has, as a corrupted caller would pass.
BogusKey == "results-bogus"

\* What a user can choose in each control: the options the form offers, a
\* number typed into the y-axis maximum, or the control cleared.
ControlValues(c) ==
  CASE c = "LoadZone" -> {Str("ZoneA"), Str("ZoneB"), Null}
    [] c = "Horizon" -> {Str("2030"), Null}
    [] c = "Stage" -> {Str("1"), Null}
    [] c = "YMax" -> {Num(0), Num(100), Null}

\* What the backend answers.  The component only stores and hands on what
\* getResults* return, so each answer is tagged with the call it answers:
\* a ScenarioResults object for a table, and for a plot a Bokeh item whose
\* target is the HTML name of the call.
TableRows(id) == [rows |-> id]
PlotAPI(id, name) == [plotJSON |-> [target_id |-> name, doc |-> id]]
PlotOptions ==
  [loadZoneOptions |-> <<"ZoneA", "ZoneB">>, horizonOptions |-> <<"2030">>,
   stageOptions |-> <<"1">>]

\* The views the user switches between in SpecFocus.
FocusKeys ==
  {"results-project-capacity", "results-dispatch-plot", "results-capacity-new-plot"}

\* ---------------------------------------------------------------- state
VARIABLES
  subject,            \* value of service.resultsToViewSubject
  nSubscribers,       \* handlers subscribed to it by getResultsToShow
  resultsToShow, scenarioID,
  allResultsButtons, allResultsForms, allTables,
  tables,             \* the twelve results* fields
  forms,              \* value of the seven *OptionsForm groups
  plotJSON, plotHTMLName,
  inflight,           \* service calls subscribed to and not yet answered
  embedCalls,         \* arguments of the calls of Bokeh.embed.embed_item
  thrown,             \* the error the last handler ended with
  onPage,             \* the router shows the results page
  inUse,              \* the keys this session passes to showResults
  named,              \* the plot getters run so far: run of ngOnInit, form,
                      \* option values read, name stored
  nInit, nEdits       \* runs of ngOnInit and edits so far

vars ==
  << subject, nSubscribers, resultsToShow, scenarioID, allResultsButtons,
     allResultsForms, allTables, tables, forms, plotJSON, plotHTMLName,
     inflight, embedCalls, thrown, onPage, inUse, named, nInit, nEdits >>

\* The fields after construction.  The three arrays are unassigned until
\* ngOnInit assigns them; nothing reads them before.
Constructed ==
  /\ subject = ""
  /\ nSubscribers = 0
  /\ resultsToShow = UndefinedString
  /\ scenarioID = 0
  /\ allResultsButtons = <<>>
  /\ allResultsForms = <<>>
  /\ allTables = <<>>
  /\ tables = [s \in TableSlots |-> Undefined]
  /\ forms = [f \in PlotForms |-> [c \in Controls(PlotOf(f)) |-> Null]]
  /\ plotJSON = [f \in PlotForms |-> Undefined]
  /\ plotHTMLName = [f \in PlotForms |-> UndefinedString]
  /\ inflight = {}
  /\ embedCalls = <<>>
  /\ thrown = "none"
  /\ onPage = FALSE
  /\ named = {}
  /\ nInit = 0
  /\ nEdits = 0

\* ---------------------------------------------------------------- service
\* ScenarioResultsService.changeResultsToView(v): next(v) on the
\* BehaviorSubject, which hands v to every subscribed handler at once.  The
\* result is the value of resultsToShow after the call.
changeResultsToView(v) == IF nSubscribers > 0 THEN v ELSE resultsToShow

\* ---------------------------------------------------------------- component
\* getResultsToShow: subscribes a handler that stores what it is handed; a
\* BehaviorSubject hands the current value over on subscription.
getResultsToShow(current) == current

\* makeResultsButtons: one button per table view.
makeResultsButtonsAppended ==
  allResultsButtons \o [i \in 1..Len(TableViews) |-> [ngIfKey |-> TableViews[i].key]]
makeResultsButtons == [i \in 1..Len(TableViews) |-> [ngIfKey |-> TableViews[i].key]]

OptionsFor(c, plotOptions) ==
  CASE c = "LoadZone" -> plotOptions.loadZoneOptions
    [] c = "Horizon" -> plotOptions.horizonOptions
    [] c = "Stage" -> plotOptions.stageOptions

\* The form structure makeResultsForms builds for one plot view.
FormStructure(v, plotOptions) ==
  [formGroup |-> v.form,
   selectForms |->
     [i \in 1..Len(v.filters) |->
        [formControlName |-> v.ctl \o v.filters[i],
         formControlOptions |-> OptionsFor(v.filters[i], plotOptions)]],
   yMaxFormControlName |-> v.ctl \o "YMax",
   button |-> [ngIfKey |-> v.key]]

\* The callback of makeResultsForms: what it pushes, in order.
makeResultsFormsCallback(plotOptions) ==
  [i \in 1..Len(PlotViews) |-> FormStructure(PlotViews[i], plotOptions)]

\* if (yMax === null) { yMax = 'default'; }
YMaxArgFalsy(yMax) == IF yMax = Null \/ yMax = Num(0) THEN Str("default") ELSE yMax
YMaxArg(yMax) == IF yMax = Null THEN Str("default") ELSE yMax

\* The template literal of a plot getter: the prefix, then each select
\* value after a dash.
HTMLNameWithYMax(v, f) ==
  IF Len(v.filters) = 2
  THEN v.html \o "-" \o ToStr(f[v.filters[1]]) \o "-" \o ToStr(f[v.filters[2]])
       \o "-" \o f.YMax.t
  ELSE v.html \o "-" \o ToStr(f[v.filters[1]]) \o "-" \o f.YMax.t
HTMLName(v, f) ==
  IF Len(v.filters) = 2
  THEN v.html \o "-" \o ToStr(f[v.filters[1]]) \o "-" \o ToStr(f[v.filters[2]])
  ELSE v.html \o "-" \o ToStr(f[v.filters[1]])

\* The name a plot getter assigns to its *HTMLName field.
NameAppended(v) ==
  IF plotHTMLName[v.form] = UndefinedString THEN HTMLName(v, forms[v.form])
  ELSE plotHTMLName[v.form] \o HTMLName(v, forms[v.form])
NameStored(v) == HTMLName(v, forms[v.form])

\* The arguments a plot getter hands to the service.
PlotArgsSwapped(v, f, sid) ==
  <<Num(sid)>> \o [i \in 1..Len(v.filters) |-> f[v.filters[Len(v.filters) + 1 - i]]]
    \o <<YMaxArg(f.YMax)>>
PlotArgsNullDefault(v, f, sid) ==
  <<Num(sid)>>
    \o [i \in 1..Len(v.filters) |->
          IF f[v.filters[i]] = Null THEN Str("default") ELSE f[v.filters[i]]]
    \o <<YMaxArg(f.YMax)>>
PlotArgs(v, f, sid) ==
  <<Num(sid)>> \o [i \in 1..Len(v.filters) |-> f[v.filters[i]]] \o <<YMaxArg(f.YMax)>>

\* A service call that was subscribed to: the run of ngOnInit that made it,
\* the service method and its arguments, the view it is for and the answer
\* the backend gives.  name is the HTML name the plot getter stored when it
\* made the call.

\* The service call a table getter subscribes to.
GetResultsTable(v, sid, id) ==
  [id |-> id, kind |-> "table", view |-> v.key, fetch |-> v.fetch,
   args |-> <<Num(sid)>>, name |-> "", reply |-> TableRows(id)]

\* The service call a plot getter subscribes to.
GetResultsPlot(v, sid, id) ==
  [id |-> id, kind |-> "plot", view |-> v.key, fetch |-> v.fetch,
   args |-> PlotArgs(v, forms[v.form], sid), name |-> NameStored(v),
   reply |-> PlotAPI(id, NameStored(v))]

\* The service call makeResultsForms subscribes to.
GetOptions(sid, id) ==
  [id |-> id, kind |-> "options", view |-> "", fetch |-> "getOptions",
   args |-> <<Num(sid)>>, name |-> "", reply |-> PlotOptions]

\* The key the if statement in front of a getter compares resultsToShow with.
GuardKeyCopied(v) ==
  IF v.key = "results-project-retirements" THEN "results-project-capacity"
  ELSE IF v.key = "results-capacity-new-plot" THEN "results-dispatch-plot"
  ELSE v.key
GuardKey(v) == v.key

\* The getters ngOnInit calls for a selection, in the order of its ifs.
TableGetters(shown) == SelectSeq(TableViews, LAMBDA v : shown = GuardKey(v))
PlotGetters(shown) == SelectSeq(PlotViews, LAMBDA v : shown = GuardKey(v))

\* The service calls ngOnInit subscribes to for a selection, in order.
IssuedDeduplicated(shown, sid, id) ==
  LET tg == TableGetters(shown)
      pg == PlotGetters(shown)
  IN IF \E f \in inflight : f.view = shown THEN <<>>
     ELSE [i \in 1..Len(tg) |-> GetResultsTable(tg[i], sid, id)]
            \o [i \in 1..Len(pg) |-> GetResultsPlot(pg[i], sid, id)]
Issued(shown, sid, id) ==
  LET tg == TableGetters(shown)
      pg == PlotGetters(shown)
  IN [i \in 1..Len(tg) |-> GetResultsTable(tg[i], sid, id)]
     \o [i \in 1..Len(pg) |-> GetResultsPlot(pg[i], sid, id)]

\* ngOnInit, run with the subject holding `current`.
ngOnInitClearsResults(current, maxAct) ==
  /\ nInit < maxAct
  /\ LET id == nInit + 1
         sid == ToNumber(RouteId)
         shown == getResultsToShow(current)
         pg == PlotGetters(shown)
     IN /\ scenarioID' = sid
        /\ allResultsButtons' = makeResultsButtons
        /\ allResultsForms' = <<>>
        /\ allTables' = <<>>
        /\ nSubscribers' = nSubscribers + 1
        /\ resultsToShow' = shown
        /\ plotHTMLName' =
             [f \in PlotForms |->
                IF \E i \in 1..Len(pg) : pg[i].form = f
                THEN NameStored(PlotOf(f)) ELSE plotHTMLName[f]]
        /\ named' = named \cup
             {[id |-> id, form |-> pg[i].form, values |-> forms[pg[i].form],
               name |-> NameStored(pg[i])] : i \in 1..Len(pg)}
        /\ inflight' = inflight \cup {GetOptions(sid, id)}
                          \cup Range(Issued(shown, sid, id))
  /\ tables' = [s \in TableSlots |-> Undefined]
  /\ plotJSON' = [f \in PlotForms |-> Undefined]
  /\ subject' = current
  /\ nInit' = nInit + 1
  /\ onPage' = TRUE
  /\ thrown' = "none"
  /\ UNCHANGED <<forms, embedCalls, inUse, nEdits>>
ngOnInit(current, maxAct) ==
  /\ nInit < maxAct
  /\ LET id == nInit + 1
         sid == ToNumber(RouteId)
         shown == getResultsToShow(current)
         pg == PlotGetters(shown)
     IN /\ scenarioID' = sid
        /\ allResultsButtons' = makeResultsButtons
        /\ allResultsForms' = <<>>
        /\ allTables' = <<>>
        /\ nSubscribers' = nSubscribers + 1
        /\ resultsToShow' = shown
        /\ plotHTMLName' =
             [f \in PlotForms |->
                IF \E i \in 1..Len(pg) : pg[i].form = f
                THEN NameStored(PlotOf(f)) ELSE plotHTMLName[f]]
        /\ named' = named \cup
             {[id |-> id, form |-> pg[i].form, values |-> forms[pg[i].form],
               name |-> NameStored(pg[i])] : i \in 1..Len(pg)}
        /\ inflight' = inflight \cup {GetOptions(sid, id)}
                          \cup Range(Issued(shown, sid, id))
  /\ subject' = current
  /\ nInit' = nInit + 1
  /\ onPage' = TRUE
  /\ thrown' = "none"
  /\ UNCHANGED <<tables, forms, plotJSON, embedCalls, inUse, nEdits>>

\* Angular runs ngOnInit when the router enters the page.
NgOnInit(maxAct) ==
  /\ ~onPage
  /\ ngOnInit(subject, maxAct)

\* showResults(key): a results button or a plot form's button is pressed.
ShowResults(key, maxAct) ==
  /\ onPage
  /\ ngOnInit(key, maxAct)

\* goBack: the page is left and the selection cleared.
GoBackKeepsSelection ==
  /\ onPage
  /\ onPage' = FALSE
  /\ thrown' = "none"
  /\ UNCHANGED <<subject, resultsToShow, nSubscribers, scenarioID,
                 allResultsButtons, allResultsForms, allTables, tables, forms,
                 plotJSON, plotHTMLName, inflight, embedCalls, inUse, named,
                 nInit, nEdits>>
GoBack ==
  /\ onPage
  /\ onPage' = FALSE
  /\ subject' = ""
  /\ resultsToShow' = changeResultsToView("")
  /\ thrown' = "none"
  /\ UNCHANGED <<nSubscribers, scenarioID, allResultsButtons, allResultsForms,
                 allTables, tables, forms, plotJSON, plotHTMLName, inflight,
                 embedCalls, inUse, named, nInit, nEdits>>

\* The user changes one control of a plot options form.
SetValue(form, c, val, maxEdits) ==
  /\ onPage
  /\ nEdits < maxEdits
  /\ forms[form][c] # val
  /\ forms' = [forms EXCEPT ![form][c] = val]
  /\ nEdits' = nEdits + 1
  /\ UNCHANGED <<subject, nSubscribers, resultsToShow, scenarioID,
                 allResultsButtons, allResultsForms, allTables, tables, plotJSON,
                 plotHTMLName, inflight, embedCalls, thrown, onPage, inUse,
                 named, nInit>>

\* The callback of a table getter: inputTableRows arrives.
TableCallbackNoPush(f) ==
  /\ f \in inflight /\ f.kind = "table"
  /\ tables' = [tables EXCEPT ![TableByKey(f.view).slot] = f.reply]
  /\ inflight' = inflight \ {f}
  /\ thrown' = "none"
  /\ UNCHANGED <<subject, nSubscribers, resultsToShow, scenarioID,
                 allResultsButtons, allResultsForms, allTables, forms, plotJSON,
                 plotHTMLName, embedCalls, onPage, inUse, named, nInit, nEdits>>
TableCallbackAllSlots(f) ==
  /\ f \in inflight /\ f.kind = "table"
  /\ tables' = [s \in TableSlots |-> f.reply]
  /\ allTables' = Append(allTables, f.reply)
  /\ inflight' = inflight \ {f}
  /\ thrown' = "none"
  /\ UNCHANGED <<subject, nSubscribers, resultsToShow, scenarioID,
                 allResultsButtons, allResultsForms, forms, plotJSON,
                 plotHTMLName, embedCalls, onPage, inUse, named, nInit, nEdits>>
TableCallback(f) ==
  /\ f \in inflight /\ f.kind = "table"
  /\ LET slot == TableByKey(f.view).slot
     IN /\ tables' = [tables EXCEPT ![slot] = f.reply]
        /\ allTables' = Append(allTables, tables'[slot])
  /\ inflight' = inflight \ {f}
  /\ thrown' = "none"
  /\ UNCHANGED <<subject, nSubscribers, resultsToShow, scenarioID,
                 allResultsButtons, allResultsForms, forms, plotJSON,
                 plotHTMLName, embedCalls, onPage, inUse, named, nInit, nEdits>>

\* The callback of a plot getter: the API object arrives.
PlotCallbackPushesTable(f) ==
  /\ f \in inflight /\ f.kind = "plot"
  /\ LET form == PlotByKey(f.view).form
     IN /\ plotJSON' = [plotJSON EXCEPT ![form] = f.reply.plotJSON]
        /\ embedCalls' = Append(embedCalls, plotJSON'[form])
        /\ allTables' = Append(allTables, plotJSON'[form])
  /\ inflight' = inflight \ {f}
  /\ thrown' = "none"
  /\ UNCHANGED <<subject, nSubscribers, resultsToShow, scenarioID,
                 allResultsButtons, allResultsForms, tables, forms,
                 plotHTMLName, onPage, inUse, named, nInit, nEdits>>
PlotCallbackEmbedsTwice(f) ==
  /\ f \in inflight /\ f.kind = "plot"
  /\ LET form == PlotByKey(f.view).form
     IN /\ plotJSON' = [plotJSON EXCEPT ![form] = f.reply.plotJSON]
        /\ embedCalls' = embedCalls \o <<plotJSON'[form], plotJSON'[form]>>
  /\ inflight' = inflight \ {f}
  /\ thrown' = "none"
  /\ UNCHANGED <<subject, nSubscribers, resultsToShow, scenarioID,
                 allResultsButtons, allResultsForms, allTables, tables, forms,
                 plotHTMLName, onPage, inUse, named, nInit, nEdits>>
PlotCallbackNoEmbed(f) ==
  /\ f \in inflight /\ f.kind = "plot"
  /\ plotJSON' = [plotJSON EXCEPT ![PlotByKey(f.view).form] = f.reply.plotJSON]
  /\ inflight' = inflight \ {f}
  /\ thrown' = "none"
  /\ UNCHANGED <<subject, nSubscribers, resultsToShow, scenarioID,
                 allResultsButtons, allResultsForms, allTables, tables, forms,
                 plotHTMLName, embedCalls, onPage, inUse, named, nInit, nEdits>>
PlotCallbackResetsForm(f) ==
  /\ f \in inflight /\ f.kind = "plot"
  /\ LET form == PlotByKey(f.view).form
     IN /\ plotJSON' = [plotJSON EXCEPT ![form] = f.reply.plotJSON]
        /\ embedCalls' = Append(embedCalls, plotJSON'[form])
        /\ forms' = [forms EXCEPT ![form] = [c \in DOMAIN forms[form] |-> Null]]
  /\ inflight' = inflight \ {f}
  /\ thrown' = "none"
  /\ UNCHANGED <<subject, nSubscribers, resultsToShow, scenarioID,
                 allResultsButtons, allResultsForms, allTables, tables,
                 plotHTMLName, onPage, inUse, named, nInit, nEdits>>
PlotCallback(f) ==
  /\ f \in inflight /\ f.kind = "plot"
  /\ LET form == PlotByKey(f.view).form
     IN /\ plotJSON' = [plotJSON EXCEPT ![form] = f.reply.plotJSON]
        /\ embedCalls' = Append(embedCalls, plotJSON'[form])
  /\ inflight' = inflight \ {f}
  /\ thrown' = "none"
  /\ UNCHANGED <<subject, nSubscribers, resultsToShow, scenarioID,
                 allResultsButtons, allResultsForms, allTables, tables, forms,
                 plotHTMLName, onPage, inUse, named, nInit, nEdits>>

\* The callback of makeResultsForms: the options arrive.
OptionsCallback(f) ==
  /\ f \in inflight /\ f.kind = "options"
  /\ allResultsForms' = allResultsForms \o makeResultsFormsCallback(f.reply)
  /\ inflight' = inflight \ {f}
  /\ thrown' = "none"
  /\ UNCHANGED <<subject, nSubscribers, resultsToShow, scenarioID,
                 allResultsButtons, allTables, tables, forms, plotJSON,
                 plotHTMLName, embedCalls, onPage, inUse, named, nInit, nEdits>>

\* A service call reports an error: no subscribe call passes an error
\* handler, so no callback runs and the error goes unhandled.
FetchErrorClearsSelection(f) ==
  /\ f \in inflight
  /\ inflight' = inflight \ {f}
  /\ thrown' = "HttpErrorResponse"
  /\ subject' = ""
  /\ resultsToShow' = changeResultsToView("")
  /\ UNCHANGED <<nSubscribers, scenarioID,
                 allResultsButtons, allResultsForms, allTables, tables, forms,
                 plotJSON, plotHTMLName, embedCalls, onPage, inUse,
                 named, nInit, nEdits>>
FetchError(f) ==
  /\ f \in inflight
  /\ inflight' = inflight \ {f}
  /\ thrown' = "HttpErrorResponse"
  /\ UNCHANGED <<subject, nSubscribers, resultsToShow, scenarioID,
                 allResultsButtons, allResultsForms, allTables, tables, forms,
                 plotJSON, plotHTMLName, embedCalls, onPage, inUse,
                 named, nInit, nEdits>>

\* ---------------------------------------------------------------- specifications
\* The forms of the plot views in use.
FormsInUse == {v.form : v \in {w \in Range(PlotViews) : w.key \in inUse}}

Callbacks ==
  \/ \E f \in inflight : TableCallback(f)
  \/ \E f \in inflight : PlotCallback(f)
  \/ \E f \in inflight : OptionsCallback(f)

Selections(maxAct) ==
  \/ NgOnInit(maxAct)
  \/ \E key \in inUse : ShowResults(key, maxAct)

Edits(maxEdits) ==
  \E form \in FormsInUse : \E c \in Controls(PlotOf(form)) :
    \E val \in ControlValues(c) : SetValue(form, c, val, maxEdits)

\* A session on the page with one view, any view of the catalog or a key
\* that has none, and its plot options.
Init ==
  /\ Constructed
  /\ \E key \in CatalogKeys \cup {BogusKey} : inUse = {key}

Next ==
  \/ Selections(MaxActivations)
  \/ Edits(MaxEdits)
  \/ Callbacks

Spec == Init /\ [][Next]_vars

\* The same session with more edits and fewer selections.
NextParams ==
  \/ Selections(ParamActivations)
  \/ Edits(ParamEdits)
  \/ Callbacks

SpecParams == Init /\ [][NextParams]_vars

\* A session that switches between a table view and two plot views and
\* leaves and enters the page, the plot options left as they are.
InitFocus ==
  /\ Constructed
  /\ inUse = FocusKeys

NextFocus ==
  \/ Selections(FocusActivations)
  \/ GoBack
  \/ Callbacks

SpecFocus == InitFocus /\ [][NextFocus]_vars

\* The same session with service calls that may fail.
NextErrors ==
  \/ Selections(ErrorActivations)
  \/ GoBack
  \/ Callbacks
  \/ \E f \in inflight : FetchError(f)

SpecErrors == InitFocus /\ [][NextErrors]_vars

\* The session of Spec with a backend that answers: a service call that is
\* open is answered in the end, so a callback that can run does run.
SpecLive == Spec /\ WF_vars(Callbacks)

\* ---------------------------------------------------------------- properties
\* A step that runs ngOnInit, the service calls a step subscribes to, and
\* those among them that fetch a table or a plot.
ActivationStep == nInit' = nInit + 1
NewCalls == inflight' \ inflight
ResultCalls(calls) == {f \in calls : f.kind # "options"}

\* C1: when the fetch of a table view completes with rows R, the view's
\* field holds exactly R and allTables has gained R, once.
C1_TableResultStoredOnce ==
  [][\A f \in inflight : (f.kind = "table" /\ f \notin inflight') =>
       /\ tables'[TableByKey(f.view).slot] = f.reply
       /\ allTables' = Append(allTables, f.reply)
       /\ Cardinality({i \in 1..Len(allTables') : allTables'[i] = f.reply}) = 1]_vars

C1_Witness ==
  /\ resultsToShow = "results-project-capacity"
  /\ tables["resultsProjectCapacity"] = TableRows(2)
  /\ allTables = <<TableRows(2)>>

\* The arguments the claim C2 lists for a key, from the form values.
ExpectedArgs(key) ==
  LET sid == Num(ToNumber(RouteId))
      F == forms[PlotByKey(key).form]
      yMax == IF F.YMax = Null THEN Str("default") ELSE F.YMax
  IN IF key \in TableKeys THEN <<sid>>
     ELSE IF key = "results-dispatch-plot" THEN <<sid, F.LoadZone, F.Horizon, yMax>>
     ELSE IF key \in {"results-capacity-new-plot", "results-capacity-retired-plot",
                      "results-capacity-total-plot"}
          THEN <<sid, F.LoadZone, yMax>>
     ELSE <<sid, F.LoadZone, F.Stage, yMax>>

ServiceMethod(key) ==
  IF key \in TableKeys THEN TableByKey(key).fetch ELSE PlotByKey(key).fetch

\* C2: every run of ngOnInit with a key of the catalog selected calls the
\* service method of that key with the scenario id of the route and then the
\* view's option values in declared order; scenario 42, the dispatch plot,
\* load zone ZoneA, horizon 2030 and no y-axis maximum give the name
\* dispatchPlot-ZoneA-2030 and the arguments (42, ZoneA, 2030, default).
C2_FetchArguments ==
  [][ActivationStep =>
       LET key == resultsToShow'
           calls == ResultCalls(NewCalls)
           F == forms["dispatchPlotOptionsForm"]
       IN /\ key \in CatalogKeys =>
               /\ calls # {}
               /\ \A f \in calls :
                    f.fetch = ServiceMethod(key) /\ f.args = ExpectedArgs(key)
          /\ ( /\ key = "results-dispatch-plot"
               /\ F.LoadZone = Str("ZoneA") /\ F.Horizon = Str("2030")
               /\ F.YMax = Null )
             => /\ plotHTMLName'["dispatchPlotOptionsForm"] = "dispatchPlot-ZoneA-2030"
                /\ \A f \in calls :
                     f.args = <<Num(42), Str("ZoneA"), Str("2030"), Str("default")>>]_vars

C2_Witness ==
  /\ plotHTMLName["dispatchPlotOptionsForm"] = "dispatchPlot-ZoneA-2030"
  /\ \E f \in inflight :
       /\ f.fetch = "getResultsDispatchPlot"
       /\ f.args = <<Num(42), Str("ZoneA"), Str("2030"), Str("default")>>

\* C3: a plot getter hands the service the string default when the y-axis
\* maximum of its form is null, and the value of the form otherwise.
C3_YMaxDefault ==
  [][ActivationStep =>
       \A f \in NewCalls : f.kind = "plot" =>
         LET yMax == forms[PlotByKey(f.view).form].YMax
             last == f.args[Len(f.args)]
         IN /\ yMax = Null => last = Str("default")
            /\ yMax # Null => last = yMax]_vars

C3_Witness ==
  \E f, g \in inflight :
    /\ f.kind = "plot" /\ g.kind = "plot" /\ f.view = g.view
    /\ f.args[Len(f.args)] = Str("default")
    /\ g.args[Len(g.args)] = Num(0)

\* C4: two runs of the same plot getter that read the same option values
\* store the same HTML name, whatever happened in between.
C4_NamePure ==
  \A a, b \in named :
    (a.form = b.form /\ a.values = b.values) => a.name = b.name

C4_Witness ==
  \E a, b, c \in named :
    /\ a.id < c.id /\ c.id < b.id
    /\ a.form = b.form /\ a.values = b.values /\ c.form # a.form
    /\ plotJSON[a.form] # Undefined

\* The controls in which two readings of a form differ.
Differing(x, y) == {c \in DOMAIN x : x[c] # y[c]}

\* C5 as claimed: two runs of the same plot getter whose option values
\* differ in one control store different HTML names.
C5_AnyFilterChangesName ==
  \A a, b \in named :
    (a.form = b.form /\ Cardinality(Differing(a.values, b.values)) = 1)
      => a.name # b.name

\* C5 as amended: if the one control is a select (load zone, horizon,
\* stage) whose two values read differently as text, the names differ; if
\* it is the y-axis maximum, the names are the same.
C5_SelectFilterChangesName ==
  \A a, b \in named :
    (a.form = b.form /\ Cardinality(Differing(a.values, b.values)) = 1) =>
      LET c == CHOOSE d \in Differing(a.values, b.values) : TRUE
      IN IF c = "YMax" THEN a.name = b.name
         ELSE ToStr(a.values[c]) # ToStr(b.values[c]) => a.name # b.name

C5_Witness ==
  \E a, b \in named :
    /\ a.form = b.form /\ a.id < b.id
    /\ Differing(a.values, b.values) = {"LoadZone"}
    /\ a.name # b.name

\* C6: showResults(X) leaves resultsToShow = X, goBack leaves it empty, and
\* the handler subscribed on entering the page is handed the value the
\* subject holds.
C6_SelectionRoundTrip ==
  [][ /\ (onPage /\ ActivationStep) => (subject' \in inUse /\ resultsToShow' = subject')
      /\ (onPage /\ ~onPage') => (subject' = "" /\ resultsToShow' = "")
      /\ (~onPage /\ onPage') => resultsToShow' = subject ]_vars

C6_Witness ==
  /\ onPage /\ nSubscribers >= 3
  /\ resultsToShow = ""
  /\ \E form \in PlotForms : plotHTMLName[form] # UndefinedString

\* C7 as claimed: the answer to the call of a plot view that arrives while
\* another plot view is selected changes no plot and embeds nothing.
C7_StaleCompletionDiscarded ==
  [][\A f \in inflight :
       ( /\ f.kind = "plot" /\ f \notin inflight'
         /\ resultsToShow \in PlotKeys /\ resultsToShow # f.view )
       => (plotJSON' = plotJSON /\ embedCalls' = embedCalls)]_vars

\* C8: a run of ngOnInit subscribes to at most one table or plot call, and
\* to exactly the one of the selected view when a key of the catalog is
\* selected.
C8_OneFetchPerActivation ==
  [][ActivationStep =>
       LET calls == ResultCalls(NewCalls)
       IN /\ Cardinality(calls) <= 1
          /\ resultsToShow' \in CatalogKeys =>
               \E f \in calls : f.view = resultsToShow' /\ calls = {f}]_vars

C8_Witness ==
  /\ nInit = 2
  /\ \E f \in inflight : f.kind = "plot" /\ f.id = 2 /\ f.view = resultsToShow
  /\ Cardinality(ResultCalls(inflight)) = 1

\* C9 as claimed: with a key selected that no view has, the run of
\* ngOnInit ends with the error UnknownViewKind.
C9_UnknownKeyFails ==
  (nInit > 0 /\ resultsToShow \notin CatalogKeys \cup {""})
    => thrown = "UnknownViewKind"

\* C10 as claimed: once ngOnInit has run, a further run subscribes to no
\* getOptions call and leaves the form structures as they are.
C10_OptionsFetchedOnce ==
  [][(ActivationStep /\ nInit >= 1) =>
       /\ \A f \in NewCalls : f.kind # "options"
       /\ allResultsForms' = allResultsForms]_vars

\* A view's result is present: its results* field or its *PlotJSON field
\* has been assigned.
Present(key) ==
  IF key \in TableKeys THEN tables[TableByKey(key).slot] # Undefined
  ELSE plotJSON[PlotByKey(key).form] # Undefined

\* The service calls answered by a step.
Answered == inflight \ inflight'

\* C11: a view's result is present exactly if the view was selected, a call
\* was made for it and the call was answered: no result is present at the
\* start; a call for a table or a plot is only made for the key that is
\* selected; a result becomes present only in the step that answers a call
\* for its view, is present after every such step, and stays present.
C11_ResultIffFetched ==
  /\ \A key \in CatalogKeys : ~Present(key)
  /\ [][\A key \in CatalogKeys :
          /\ \A f \in ResultCalls(NewCalls) : f.view = resultsToShow'
          /\ (~Present(key) /\ Present(key)') => \E f \in Answered : f.view = key
          /\ (\E f \in Answered : f.view = key) => Present(key)'
          /\ Present(key) => Present(key)']_vars

C11_Witness ==
  /\ Present("results-project-capacity")
  /\ resultsToShow = "results-dispatch-plot"
  /\ \E f \in inflight : f.view = "results-dispatch-plot"
  /\ ~Present("results-dispatch-plot")
  /\ ~Present("results-capacity-new-plot")

\* C12: showResults(k) leaves the results* field and the *PlotJSON field of
\* every view other than k as they were.
C12_OtherResultsKept ==
  [][(onPage /\ ActivationStep) =>
       /\ \A v \in Range(TableViews) :
            v.key # resultsToShow' => tables'[v.slot] = tables[v.slot]
       /\ \A v \in Range(PlotViews) :
            v.key # resultsToShow' => plotJSON'[v.form] = plotJSON[v.form]]_vars

\* The dispatch plot was selected after the rows of project capacity and
\* the plot of new capacity had arrived: allTables was emptied since.
C12_Witness ==
  /\ onPage /\ resultsToShow = "results-dispatch-plot"
  /\ tables["resultsProjectCapacity"] = TableRows(2)
  /\ plotJSON["capacityNewPlotOptionsForm"] # Undefined
  /\ allTables = <<>>
  /\ ~\E f \in inflight : f.kind = "table"

\* C13: the twelve table keys and the seven plot keys are disjoint, the
\* buttons carry the table keys and the form structures the plot keys; a run
\* of ngOnInit with a table key selected makes a table call, and its answer
\* is written to the view's results* field and to allTables and embeds
\* nothing; with a plot key selected it makes a plot call, and its answer is
\* written to the view's *PlotJSON field and embedded, and allTables and the
\* results* fields stay as they are.
C13_KindPartition ==
  [][/\ TableKeys \cap PlotKeys = {}
     /\ Cardinality(TableKeys) = 12 /\ Cardinality(PlotKeys) = 7
     /\ {allResultsButtons'[i].ngIfKey : i \in 1..Len(allResultsButtons')}
          \subseteq TableKeys
     /\ {allResultsForms'[i].button.ngIfKey : i \in 1..Len(allResultsForms')}
          \subseteq PlotKeys
     /\ ActivationStep =>
          LET calls == ResultCalls(NewCalls)
          IN /\ resultsToShow' \in TableKeys =>
                  (calls # {} /\ \A f \in calls :
                     f.kind = "table" /\ f.fetch = TableByKey(resultsToShow').fetch)
             /\ resultsToShow' \in PlotKeys =>
                  (calls # {} /\ \A f \in calls :
                     f.kind = "plot" /\ f.fetch = PlotByKey(resultsToShow').fetch)
             /\ embedCalls' = embedCalls
     /\ \A f \in ResultCalls(Answered) :
          /\ f.view \in TableKeys =>
               /\ tables' = [tables EXCEPT ![TableByKey(f.view).slot] = f.reply]
               /\ allTables' = Append(allTables, f.reply)
               /\ embedCalls' = embedCalls /\ plotJSON' = plotJSON
          /\ f.view \in PlotKeys =>
               /\ plotJSON' =
                    [plotJSON EXCEPT ![PlotByKey(f.view).form] = f.reply.plotJSON]
               /\ embedCalls' = Append(embedCalls, f.reply.plotJSON)
               /\ allTables' = allTables /\ tables' = tables]_vars

\* A plot was answered and embedded after the form structures were built,
\* with allTables empty.
C13_Witness ==
  /\ resultsToShow \in PlotKeys
  /\ Present(resultsToShow)
  /\ Len(embedCalls) = 2
  /\ Len(allResultsForms) = 7 /\ Len(allResultsButtons) = 12
  /\ allTables = <<>>

\* C14: a run of ngOnInit with a plot key selected makes the plot call also
\* when a select control of the form (load zone, horizon, stage) is null,
\* and hands the service that value as it is, null.
C14_NullFilterPassed ==
  [][(ActivationStep /\ resultsToShow' \in PlotKeys) =>
       LET v == PlotByKey(resultsToShow')
           calls == ResultCalls(NewCalls)
       IN /\ calls # {}
          /\ \A f \in calls : \A i \in 1..Len(v.filters) :
               /\ f.args[i + 1] = forms[v.form][v.filters[i]]
               /\ forms[v.form][v.filters[i]] = Null => f.args[i + 1] = Null]_vars

C14_Witness ==
  \E f \in inflight :
    /\ f.fetch = "getResultsCostPlot"
    /\ f.args[2] = Str("ZoneB") /\ f.args[3] = Null

\* C15: goBack leaves the selection empty, and the run of ngOnInit on
\* entering the page again finds it empty, makes no table or plot call and
\* leaves allTables empty.
C15_ReentryShowsNothing ==
  [][/\ (onPage /\ ~onPage') => resultsToShow' = ""
     /\ (~onPage /\ onPage' /\ nInit >= 1) =>
          /\ resultsToShow' = ""
          /\ ResultCalls(NewCalls) = {}
          /\ embedCalls' = embedCalls
          /\ allTables' = <<>>]_vars

\* The page was entered, project capacity shown and answered, the page left
\* and entered again: only the getOptions call of the last run is open.
C15_Witness ==
  /\ onPage /\ nInit = 3 /\ resultsToShow = ""
  /\ tables["resultsProjectCapacity"] = TableRows(2)
  /\ inflight = {GetOptions(42, 3)}
  /\ allTables = <<>>

\* C16 as claimed: when the answer to a plot call is stored and embedded, the
\* HTML name held for the view is the one computed from the option values
\* the call was made with.
C16_NameMatchesDescription ==
  [][\A f \in Answered : f.kind = "plot" =>
       plotHTMLName'[PlotByKey(f.view).form] = f.name]_vars

\* C17 as claimed: allTables holds at most one entry, and an entry it holds
\* is the rows of the table view that is selected.
C17_AtMostOneTable ==
  /\ Len(allTables) <= 1
  /\ Len(allTables) = 1 =>
       /\ resultsToShow \in TableKeys
       /\ allTables[1] = tables[TableByKey(resultsToShow).slot]

\* A step on the path of a view: the run of ngOnInit that selects it, or
\* the callback of a call made for it.
StepOf(key) ==
  \/ ActivationStep /\ resultsToShow' = key
  \/ \E f \in ResultCalls(Answered) : f.view = key

\* A step leaves the results* field, the *PlotJSON field and the *HTMLName
\* field of every view other than `key` as they were.
OtherViewsKept(key) ==
  /\ \A v \in Range(TableViews) :
       v.key # key => tables'[v.slot] = tables[v.slot]
  /\ \A v \in Range(PlotViews) :
       v.key # key => /\ plotJSON'[v.form] = plotJSON[v.form]
                      /\ plotHTMLName'[v.form] = plotHTMLName[v.form]

\* C18 as claimed: a step on the path of view A writes no result state that
\* the path of another view B writes: not B's fields, and not allTables
\* while it holds rows B's callback pushed.
C18_OnlySelectionShared ==
  [][\A key \in CatalogKeys : StepOf(key) =>
       /\ OtherViewsKept(key)
       /\ allTables' # allTables =>
            \A v \in Range(TableViews) : \A i \in 1..Len(allTables) :
              v.key # key => allTables[i] # tables[v.slot]]_vars

\* C18 as amended: besides the selection, allTables is shared by all views:
\* every run of ngOnInit, whatever it selects, empties it and every table
\* callback appends to it, a plot callback leaves it; the results*,
\* *PlotJSON and *HTMLName fields are written on their own view's path only.
C18_FieldsPartitioned ==
  [][/\ \A key \in CatalogKeys : StepOf(key) => OtherViewsKept(key)
     /\ ActivationStep => allTables' = <<>>
     /\ \A f \in ResultCalls(Answered) :
          IF f.kind = "table" THEN allTables' = Append(allTables, f.reply)
          ELSE allTables' = allTables]_vars

\* The rows of project capacity arrived after the dispatch plot was
\* selected and both plots have been answered.
C18_Witness ==
  /\ resultsToShow = "results-dispatch-plot"
  /\ allTables = <<tables["resultsProjectCapacity"]>>
  /\ Present("results-dispatch-plot")
  /\ Present("results-capacity-new-plot")

\* The field a call's answer is stored in holds the answer.
Stored(f) ==
  IF f.kind = "table" THEN tables[TableByKey(f.view).slot] = f.reply
  ELSE plotJSON[PlotByKey(f.view).form] = f.reply.plotJSON

\* C19: a run of ngOnInit with a key of the catalog selected adds one call
\* to those open, also while a call for the same view is open, and removes
\* none; a callback answers one call and the view's field then holds that
\* answer, whichever call was made first; nothing else closes a call.
C19_NoDeduplication ==
  [][/\ ActivationStep =>
          /\ inflight \subseteq inflight'
          /\ resultsToShow' \in CatalogKeys =>
               Cardinality(ResultCalls(inflight'))
                 = Cardinality(ResultCalls(inflight)) + 1
     /\ ~ActivationStep =>
          \/ inflight' = inflight
          \/ \E f \in inflight :
               /\ inflight' = inflight \ {f}
               /\ f.kind # "options" => Stored(f)']_vars

\* Two calls for the total capacity plot were open; the second was answered
\* first and the field holds the answer to the first.
C19_Witness ==
  /\ Len(embedCalls) = 2
  /\ embedCalls[1].doc = 3 /\ embedCalls[2].doc = 2
  /\ plotJSON["capacityTotalPlotOptionsForm"] = embedCalls[2]
  /\ ResultCalls(inflight) = {}

\* C20: the callback of a plot call assigns the view's *PlotJSON field the
\* description received and in the same step calls embed_item once, with
\* the value of that field; no other step calls embed_item.
C20_EmbedOncePerPlot ==
  [][IF \E f \in Answered : f.kind = "plot"
     THEN \A f \in Answered : f.kind = "plot" =>
            LET form == PlotByKey(f.view).form
            IN /\ plotJSON'[form] = f.reply.plotJSON
               /\ Len(embedCalls') = Len(embedCalls) + 1
               /\ embedCalls' = Append(embedCalls, plotJSON'[form])
     ELSE embedCalls' = embedCalls]_vars

\* The first call for the capacity factor plot was answered and embedded
\* while the second is open.
C20_Witness ==
  /\ Present("results-capacity-factor-plot")
  /\ plotJSON["capacityFactorPlotOptionsForm"].doc = 2
  /\ embedCalls = <<plotJSON["capacityFactorPlotOptionsForm"]>>
  /\ \E f \in inflight : f.fetch = "getResultsCapacityFactorPlot" /\ f.id = 3

\* C21 as claimed: allResultsForms is empty or holds the seven form
\* structures, one per plot view in the order of the catalog.
C21_FormsEmptyOrSeven ==
  \/ allResultsForms = <<>>
  \/ /\ Len(allResultsForms) = Len(PlotViews)
     /\ \A i \in 1..Len(PlotViews) :
          allResultsForms[i].button.ngIfKey = PlotViews[i].key

\* C22: once ngOnInit has run, allResultsButtons holds the twelve buttons of
\* the table views, each key once, in the order makeResultsButtons pushes
\* them, however often ngOnInit has run.
C22_TwelveButtons ==
  nInit >= 1 =>
    /\ Len(allResultsButtons) = 12
    /\ [i \in 1..12 |-> allResultsButtons[i].ngIfKey]
         = << "results-project-capacity", "results-project-retirements",
              "results-project-new-build", "results-project-dispatch",
              "results-project-carbon", "results-transmission-capacity",
              "results-transmission-flows", "results-imports-exports",
              "results-system-load-balance", "results-system-rps",
              "results-system-carbon-cap", "results-system-prm" >>
    /\ \A i, j \in 1..12 :
         allResultsButtons[i].ngIfKey = allResultsButtons[j].ngIfKey => i = j

\* The setup has run three times, the last two on a selection.
C22_Witness ==
  /\ nInit = 3 /\ nSubscribers = 3
  /\ resultsToShow \in TableKeys
  /\ Len(allResultsButtons) = 12
  /\ allResultsButtons[12].ngIfKey = "results-system-prm"

\* The answer to the call run n of ngOnInit made for the selected view is
\* held by the view's field, and for a plot it has been embedded.
LastStored(n) ==
  IF resultsToShow \in TableKeys
  THEN tables[TableByKey(resultsToShow).slot] = TableRows(n)
  ELSE /\ resultsToShow \in PlotKeys
       /\ Present(resultsToShow)
       /\ plotJSON[PlotByKey(resultsToShow).form].doc = n
       /\ \E i \in 1..Len(embedCalls) :
            embedCalls[i] = plotJSON[PlotByKey(resultsToShow).form]

\* C23: when run n of ngOnInit has selected a key of the catalog and made
\* the call for it, then, unless ngOnInit runs again, the view's field comes
\* to hold the answer to that call and, for a plot, embed_item is called
\* with it.
C23_LastFetchStored ==
  \A n \in 1..MaxActivations :
    (/\ nInit = n /\ resultsToShow \in CatalogKeys
     /\ \E f \in ResultCalls(inflight) : f.id = n)
      ~> (nInit > n \/ LastStored(n))

\* The last run of ngOnInit made the second call for the dispatch plot; its
\* answer is stored and embedded while the first call is still open.
C23_Witness ==
  /\ nInit = MaxActivations
  /\ resultsToShow = "results-dispatch-plot"
  /\ LastStored(MaxActivations)
  /\ \E f \in ResultCalls(inflight) : f.id < MaxActivations

\* C24: when a table or plot call reports an error, no callback runs: the
\* results* and *PlotJSON fields, allTables, the calls of embed_item and the
\* selection are as before, as are the other fields of the component.
C24_ErrorLeavesState ==
  [][(thrown' = "HttpErrorResponse" /\ ResultCalls(Answered) # {}) =>
       /\ tables' = tables /\ plotJSON' = plotJSON
       /\ allTables' = allTables /\ embedCalls' = embedCalls
       /\ resultsToShow' = resultsToShow /\ subject' = subject
       /\ plotHTMLName' = plotHTMLName /\ allResultsForms' = allResultsForms]_vars

\* The call for the dispatch plot failed: the plot is selected, nothing is
\* stored or embedded for it and no call for it is open.
C24_Witness ==
  /\ thrown = "HttpErrorResponse"
  /\ resultsToShow = "results-dispatch-plot"
  /\ ~Present("results-dispatch-plot")
  /\ plotHTMLName["dispatchPlotOptionsForm"] = "dispatchPlot-null-null"
  /\ ResultCalls(inflight) = {}
  /\ embedCalls = <<>>

====
